---- MODULE Spec2Model ----
(***************************************************************************)
(* The protocol bridge of apps/tauri-shell/src-tauri: the command handlers *)
(* of main.rs (spawn_agent, send_message, ...) over the shared             *)
(* Option<AgentProcess>, AgentProcess::send_request writing request lines  *)
(* to the child's stdin, and the two reader tasks of AgentProcess::spawn   *)
(* that turn the child's stdout and stderr into events.                    *)
(*                                                                         *)
(* A stream (stdin, stdout, stderr) is a sequence of elements.  An element *)
(* is one byte ("x", " ", "\n", the invalid byte BAD) or one JSON lexeme   *)
(* ("{", "}", ",", or a member such as "\"id\":\"42\""): the code moves    *)
(* bytes without looking at them except to compare with b'\n', so a lexeme *)
(* stands for the bytes that spell it.  Lengths count elements.            *)
(***************************************************************************)
EXTENDS Naturals, Sequences, FiniteSets

(***************************************************************************)
(* Bounds of the model.                                                    *)
(***************************************************************************)
MaxCalls == 3        \* commands invoked in one behaviour, each its own task
MaxChildren == 2     \* cap on launched child processes
MaxWrites == 2       \* writes of the child to stdout and stderr together
MaxReadErrs == 1     \* read faults injected on the child's output streams

(***************************************************************************)
(* Program constants.  MAX_MESSAGE_SIZE is 10 * 1024 * 1024 in the source; *)
(* the model scales it down (elements, not bytes) and keeps the relation   *)
(* the code relies on: every protocol line fits under it.  The chunk sizes *)
(* are the source's.                                                       *)
(***************************************************************************)
MAX_MESSAGE_SIZE == 10
STDOUT_CHUNK == 8192
STDERR_CHUNK == 4096

NL == "\n"
SP == " "
BAD == "<0xFF>"      \* a byte that is not valid UTF-8 anywhere in a string

Calls == 1..MaxCalls
Children == 1..MaxChildren
NoOne == 0
Streams == {"stdout", "stderr"}

Min(a, b) == IF a < b THEN a ELSE b

RECURSIVE Flatten(_)
Flatten(ss) == IF ss = <<>> THEN <<>> ELSE Head(ss) \o Flatten(Tail(ss))

(***************************************************************************)
(* Option<String>: <<>> is None, <<v>> is Some(v).  A String is a sequence *)
(* of characters.                                                          *)
(***************************************************************************)
None == <<>>
Some(v) == <<v>>

Str_hi == <<"h", "i">>
Str_images == <<"[", "\"", "a", "\"", "]">>
Str_c1 == <<"c", "1">>

\* no escaping at all
EscapeChar_raw(ch) == ch

\* serde_json's string escaping of one character
EscapeChar(ch) ==
    IF ch = "\"" THEN "\\\""
    ELSE IF ch = "\\" THEN "\\\\"
    ELSE ch

RECURSIVE EscapeStr(_)
EscapeStr(s) == IF s = <<>> THEN "" ELSE EscapeChar(Head(s)) \o EscapeStr(Tail(s))

\* one member of the serialized object: "key":"value"
Member(key, value) == "\"" \o key \o "\":\"" \o EscapeStr(value) \o "\""

RECURSIVE Join(_, _)
Join(ms, sep) ==
    IF ms = <<>> THEN <<>>
    ELSE IF Len(ms) = 1 THEN <<Head(ms)>>
    ELSE <<Head(ms), sep>> \o Join(Tail(ms), sep)

\* #[serde(skip_serializing_if = "Option::is_none")]
OptMember(key, opt) == IF opt = None THEN <<>> ELSE <<Member(key, opt[1])>>

\* serde_json::to_string(request): the members in declaration order
Encode(request) ==
    <<"{">>
    \o Join(<<Member("id", request.id), Member("kind", request.kind)>>
            \o OptMember("message", request.message)
            \o OptMember("images", request.images)
            \o OptMember("conversation_id", request.conversation_id), ",")
    \o <<"}">>

AgentRequest(id, kind, message, images, conversation_id) ==
    [id |-> id, kind |-> kind, message |-> message, images |-> images,
     conversation_id |-> conversation_id]

Chars(n) == IF n = 1 THEN "1" ELSE IF n = 2 THEN "2" ELSE IF n = 3 THEN "3"
            ELSE IF n = 4 THEN "4" ELSE "5"

\* uuid::Uuid::new_v4().to_string(): a fresh id, here made of the call's number
Uuid(call) == <<"u", Chars(call)>>

Kind_user_message == <<"u","s","e","r","_","m","e","s","s","a","g","e">>
Kind_clear_history == <<"c","l","e","a","r","_","h","i","s","t","o","r","y">>
Kind_interrupt == <<"i","n","t","e","r","r","u","p","t">>
Kind_list_conversations ==
    <<"l","i","s","t","_","c","o","n","v","e","r","s","a","t","i","o","n","s">>
Kind_load_conversation ==
    <<"l","o","a","d","_","c","o","n","v","e","r","s","a","t","i","o","n">>
Kind_new_conversation ==
    <<"n","e","w","_","c","o","n","v","e","r","s","a","t","i","o","n">>
Kind_delete_conversation ==
    <<"d","e","l","e","t","e","_","c","o","n","v","e","r","s","a","t","i","o","n">>

(***************************************************************************)
(* The commands the shell can invoke, with the arguments it passes.        *)
(***************************************************************************)
SendCommands ==
    {[name |-> "send_message", id |-> <<"x">>, message |-> Str_hi,
      images |-> None, conversation_id |-> None],
     [name |-> "send_interrupt", id |-> None, message |-> None,
      images |-> None, conversation_id |-> None],
     [name |-> "load_conversation", id |-> None, message |-> None,
      images |-> None, conversation_id |-> Str_c1]}

SpawnCommand ==
    [name |-> "spawn_agent", id |-> None, message |-> None, images |-> None,
     conversation_id |-> None]

Commands == {SpawnCommand} \cup SendCommands

\* the request each handler builds
RequestOf(command, call) ==
    CASE command.name = "send_message" ->
            AgentRequest(command.id, Kind_user_message, Some(command.message),
                         command.images, None)
      [] command.name = "clear_history" ->
            AgentRequest(Uuid(call), Kind_clear_history, None, None, None)
      [] command.name = "send_interrupt" ->
            AgentRequest(Uuid(call), Kind_interrupt, None, None, None)
      [] command.name = "list_conversations" ->
            AgentRequest(Uuid(call), Kind_list_conversations, None, None, None)
      [] command.name = "load_conversation" ->
            AgentRequest(Uuid(call), Kind_load_conversation, None, None,
                         Some(command.conversation_id))
      [] command.name = "new_conversation" ->
            AgentRequest(Uuid(call), Kind_new_conversation, None, None, None)
      [] command.name = "delete_conversation" ->
            AgentRequest(Uuid(call), Kind_delete_conversation, None, None,
                         Some(command.conversation_id))

\* the prefix each handler's map_err puts before the error
ErrPrefix(name) ==
    CASE name = "send_message" -> "Failed to send message: "
      [] name = "clear_history" -> "Failed to clear history: "
      [] name = "send_interrupt" -> "Failed to send interrupt: "
      [] name = "list_conversations" -> "Failed to list conversations: "
      [] name = "load_conversation" -> "Failed to load conversation: "
      [] name = "new_conversation" -> "Failed to create new conversation: "
      [] name = "delete_conversation" -> "Failed to delete conversation: "
      [] OTHER -> "Failed to spawn agent: "

(***************************************************************************)
(* Results.  An anyhow::Error is its outermost message and the io error    *)
(* kind it wraps ("none" when it wraps nothing).                           *)
(***************************************************************************)
Ok == [ok |-> TRUE, msg |-> "", cause |-> "none"]
Err(msg, cause) == [ok |-> FALSE, msg |-> msg, cause |-> cause]

\* anyhow::anyhow!("Agent process stdin closed"): the severed-pipe failure
ChannelClosed == Err("Agent process stdin closed", "none")
\* anyhow::Error::from(e).context(context): any other I/O failure
WriteFailure(context, kind) == Err(context, kind)

\* what the command returns to the shell: Ok, or the handler's string
Reply(name, result) ==
    IF result.ok
    THEN IF name = "list_conversations" THEN "Ok(Request sent)" ELSE "Ok"
    ELSE ErrPrefix(name) \o result.msg

AlreadyRunning == "Agent already running"
\* the None arm answering with spawn_agent's message
NotRunning_asSpawn == "Agent already running"
NotRunning == "Agent not running"

VARIABLES
    agent,       \* AppState.agent: None, or Some(k) for the child k it holds
    stateLock,   \* the call holding AppState.agent's Mutex, or NoOne
    stdinLock,   \* per child: the call holding AgentProcess.stdin's Mutex
    launched,    \* number of child processes launched so far
    alive,       \* the children that are running
    stdinOpen,   \* the children whose stdin still has its reader
    wire,        \* per child: the elements observed on its stdin, in order
    pc,          \* per call: where its handler is
    cur,         \* per call: the command it runs
    calls,       \* commands invoked so far
    returned,    \* history: the commands that returned, in order
    order,       \* history: the send_request calls in the order they took
                 \* stdin's lock, with what each has written
    pipe,        \* per stream: written by the child, not yet read
    written,     \* history, per stream: everything the child wrote
    closed,      \* the child closed its output streams (it exited)
    buffer,      \* per stream: the reader task's buffer
    pumpPc,      \* per stream: "unstarted", "running", "exited"
    sink,        \* the events emitted through the AppHandle, in order
    lines,       \* history, per stream: the lines the reader completed
    nread,       \* history, per stream: elements read so far
    nlines,      \* history, per stream: terminators drained so far
    discards,    \* history, per stream: buffers cleared on overflow
    writes,      \* writes of the child so far
    readErrs     \* read faults injected so far

supVars == <<agent, stateLock, stdinLock, launched, alive, stdinOpen, wire,
             pc, cur, calls, returned, order>>
ioVars == <<pipe, written, closed, writes>>
pumpVars == <<buffer, pumpPc, sink, lines, nread, nlines, discards, readErrs>>
vars == <<supVars, ioVars, pumpVars>>

NoCall ==
    [call |-> 0, command |-> SpawnCommand, process |-> 0, json |-> <<>>,
     n |-> 0, seen |-> None, closedAtStart |-> FALSE, running |-> FALSE]

\* a lock that excludes nobody
MutexFree_noExclusion(holder) == TRUE

\* tokio::sync::Mutex: lock().await completes only while nobody holds it
MutexFree(holder) == holder = NoOne

SupInit ==
    /\ agent = None
    /\ stateLock = NoOne
    /\ stdinLock = [k \in Children |-> NoOne]
    /\ launched = 0
    /\ alive = {}
    /\ stdinOpen = {}
    /\ wire = [k \in Children |-> <<>>]
    /\ pc = [c \in Calls |-> "idle"]
    /\ cur = [c \in Calls |-> NoCall]
    /\ calls = 0
    /\ returned = <<>>
    /\ order = <<>>

PumpInit(state) ==
    /\ pipe = [s \in Streams |-> <<>>]
    /\ written = [s \in Streams |-> <<>>]
    /\ closed = FALSE
    /\ buffer = [s \in Streams |-> <<>>]
    /\ pumpPc = [s \in Streams |-> state]
    /\ sink = <<>>
    /\ lines = [s \in Streams |-> <<>>]
    /\ nread = [s \in Streams |-> 0]
    /\ nlines = [s \in Streams |-> 0]
    /\ discards = [s \in Streams |-> 0]
    /\ writes = 0
    /\ readErrs = 0

Init == SupInit /\ PumpInit("unstarted")

(***************************************************************************)
(* The command handlers of main.rs.                                        *)
(***************************************************************************)

\* the shell invokes a command: a new task starts running its handler
Invoke(c, command) ==
    /\ pc[c] = "idle"
    /\ c = calls + 1
    /\ calls' = calls + 1
    /\ cur' = [cur EXCEPT ![c] = [NoCall EXCEPT !.call = c,
                                                !.command = command,
                                                !.running = alive # {}]]
    /\ pc' = [pc EXCEPT ![c] = "lock"]
    /\ UNCHANGED <<agent, stateLock, stdinLock, launched, alive, stdinOpen,
                   wire, returned, order, ioVars, pumpVars>>

\* let agent = state.agent.lock().await;
LockState(c) ==
    /\ pc[c] = "lock"
    /\ MutexFree(stateLock)
    /\ stateLock' = c
    /\ pc' = [pc EXCEPT ![c] = IF cur[c].command.name = "spawn_agent"
                               THEN "spawn_check" ELSE "match"]
    /\ UNCHANGED <<agent, stdinLock, launched, alive, stdinOpen, wire, cur,
                   calls, returned, order, ioVars, pumpVars>>

\* the handler returns: its guards are dropped and the shell gets the reply
Return(c, result, reply, step, io) ==
    /\ pc' = [pc EXCEPT ![c] = "returned"]
    /\ stateLock' = NoOne
    /\ returned' = Append(returned,
            [call |-> c, name |-> cur[c].command.name,
             result |-> result, reply |-> reply, step |-> step, io |-> io,
             running |-> cur[c].running,
             seen |-> IF pc[c] \in {"spawn_check", "match"} THEN agent
                      ELSE cur[c].seen,
             process |-> cur[c].process,
             closedAtStart |-> cur[c].closedAtStart,
             json |-> cur[c].json, n |-> cur[c].n])
    /\ UNCHANGED cur

\* the check left out
is_some_never(opt) == FALSE

\* Option::is_some
is_some(opt) == opt # None

\* if agent.is_some() { return Err("Agent already running") }
SpawnAgent_check(c) ==
    /\ pc[c] = "spawn_check"
    /\ IF is_some(agent)
       THEN /\ Return(c, Err(AlreadyRunning, "none"), AlreadyRunning, "check",
                      "none")
            /\ UNCHANGED <<agent, stdinLock, launched, alive, stdinOpen, wire,
                           calls, order, ioVars, pumpVars>>
       ELSE /\ pc' = [pc EXCEPT ![c] = "spawn"]
            /\ UNCHANGED <<agent, stateLock, stdinLock, launched, alive,
                           stdinOpen, wire, cur, calls, returned,
                           order, ioVars, pumpVars>>

\* the handle stored before the launch is known to have succeeded
SpawnAgent_fail_keepsHandle(c) ==
    /\ pc[c] = "spawn"
    /\ agent' = Some(launched + 1)
    /\ Return(c, Err("Failed to spawn agent process", "NotFound"),
              ErrPrefix("spawn_agent") \o "Failed to spawn agent process",
              "spawn", "NotFound")
    /\ UNCHANGED <<stdinLock, launched, alive, stdinOpen, wire, calls,
                   order, ioVars, pumpVars>>

\* AgentProcess::spawn fails: Command::spawn could not launch the child
SpawnAgent_fail(c) ==
    /\ pc[c] = "spawn"
    /\ Return(c, Err("Failed to spawn agent process", "NotFound"),
              ErrPrefix("spawn_agent") \o "Failed to spawn agent process",
              "spawn", "NotFound")
    /\ UNCHANGED <<agent, stdinLock, launched, alive, stdinOpen, wire, calls,
                   order, ioVars, pumpVars>>

\* AgentProcess::spawn succeeds: the child runs, both reader tasks are
\* spawned, and *agent = Some(process)
SpawnAgent_ok(c) ==
    /\ pc[c] = "spawn"
    /\ launched < MaxChildren
    /\ LET k == launched + 1 IN
        /\ launched' = k
        /\ alive' = alive \cup {k}
        /\ stdinOpen' = stdinOpen \cup {k}
        /\ agent' = Some(k)
        /\ pumpPc' = [s \in Streams |->
                        IF pumpPc[s] = "unstarted" THEN "running" ELSE pumpPc[s]]
        /\ Return(c, Ok, "Ok", "spawn", "none")
    /\ UNCHANGED <<stdinLock, wire, calls, order, ioVars, buffer, sink,
                   lines, nread, nlines, discards, readErrs>>

\* the handler held back until the child's Ready has been published
Command_match_awaitsReady(c) ==
    /\ pc[c] = "match"
    /\ \E i \in 1..Len(sink) : sink[i].event = "agent_response"
    /\ IF agent = None
       THEN /\ Return(c, Err(NotRunning, "none"), NotRunning, "match", "none")
            /\ UNCHANGED <<agent, stdinLock, launched, alive, stdinOpen, wire,
                           calls, order, ioVars, pumpVars>>
       ELSE /\ cur' = [cur EXCEPT ![c].seen = agent,
                                  ![c].process = agent[1],
                                  ![c].json =
                                      Encode(RequestOf(cur[c].command, cur[c].call))]
            /\ pc' = [pc EXCEPT ![c] = "stdin_lock"]
            /\ UNCHANGED <<agent, stateLock, stdinLock, launched, alive,
                           stdinOpen, wire, calls, returned, order,
                           ioVars, pumpVars>>

\* the guard on the state dropped before send_request is awaited
Command_match_releasesLock(c) ==
    /\ pc[c] = "match"
    /\ IF agent = None
       THEN /\ Return(c, Err(NotRunning, "none"), NotRunning, "match", "none")
            /\ UNCHANGED <<agent, stdinLock, launched, alive, stdinOpen, wire,
                           calls, order, ioVars, pumpVars>>
       ELSE /\ cur' = [cur EXCEPT ![c].seen = agent,
                                  ![c].process = agent[1],
                                  ![c].json =
                                      Encode(RequestOf(cur[c].command, cur[c].call))]
            /\ pc' = [pc EXCEPT ![c] = "stdin_lock"]
            /\ stateLock' = NoOne
            /\ UNCHANGED <<agent, stdinLock, launched, alive,
                           stdinOpen, wire, calls, returned, order,
                           ioVars, pumpVars>>

\* match agent.as_ref() { Some(process) => build the request ..,
\*                        None => Err("Agent not running") }
\* and, in send_request, serde_json::to_string(request)
Command_match(c) ==
    /\ pc[c] = "match"
    /\ IF agent = None
       THEN /\ Return(c, Err(NotRunning, "none"), NotRunning, "match", "none")
            /\ UNCHANGED <<agent, stdinLock, launched, alive, stdinOpen, wire,
                           calls, order, ioVars, pumpVars>>
       ELSE /\ cur' = [cur EXCEPT ![c].seen = agent,
                                  ![c].process = agent[1],
                                  ![c].json =
                                      Encode(RequestOf(cur[c].command, cur[c].call))]
            /\ pc' = [pc EXCEPT ![c] = "stdin_lock"]
            /\ UNCHANGED <<agent, stateLock, stdinLock, launched, alive,
                           stdinOpen, wire, calls, returned, order,
                           ioVars, pumpVars>>

\* let mut stdin = self.stdin.lock().await;
SendRequest_lock(c) ==
    /\ pc[c] = "stdin_lock"
    /\ LET k == cur[c].process IN
        /\ MutexFree(stdinLock[k])
        /\ stdinLock' = [stdinLock EXCEPT ![k] = c]
        /\ cur' = [cur EXCEPT ![c].closedAtStart = k \notin stdinOpen]
        /\ order' = Append(order, [call |-> cur[c].call, process |-> k,
                                   line |-> cur[c].json \o <<NL>>, n |-> 0])
    /\ pc' = [pc EXCEPT ![c] = "write_payload"]
    /\ UNCHANGED <<agent, stateLock, launched, alive, stdinOpen, wire, calls,
                   returned, ioVars, pumpVars>>

\* the elements data reach the child's stdin, in one write of the pipe
Put(c, data) ==
    LET k == cur[c].process
        i == CHOOSE j \in 1..Len(order) : order[j].call = cur[c].call
    IN  /\ wire' = [wire EXCEPT ![k] = @ \o data]
        /\ order' = [order EXCEPT ![i].n = @ + Len(data)]

\* the error kind not looked at
IoError_unclassified(context, kind) == WriteFailure(context, kind)

\* if e.kind() == std::io::ErrorKind::BrokenPipe { return Err(anyhow!(..)) }
\* return Err(anyhow::Error::from(e).context(context))
IoError(context, kind) ==
    IF kind = "BrokenPipe" THEN ChannelClosed ELSE WriteFailure(context, kind)

\* send_request returns Err: its guard on stdin is dropped with the handler's
SendRequest_fail(c, context, kind, step) ==
    /\ stdinLock' = [stdinLock EXCEPT ![cur[c].process] = NoOne]
    /\ Return(c, IoError(context, kind),
              Reply(cur[c].command.name, IoError(context, kind)), step, kind)

\* stdin.write_all(json.as_bytes()).await: the pipe takes the payload in
\* one or more writes; a write fails with BrokenPipe when the child's end
\* is closed, and may fail with another error
SendRequest_write_payload(c) ==
    /\ pc[c] = "write_payload"
    /\ LET k == cur[c].process
           left == Len(cur[c].json) - cur[c].n
       IN  \/ /\ k \in stdinOpen
              /\ \E m \in 1..left :
                    /\ Put(c, SubSeq(cur[c].json, cur[c].n + 1, cur[c].n + m))
                    /\ cur' = [cur EXCEPT ![c].n = @ + m]
                    /\ pc' = [pc EXCEPT ![c] = IF m = left THEN "write_newline"
                                               ELSE "write_payload"]
              /\ UNCHANGED <<agent, stateLock, stdinLock, launched, alive,
                             stdinOpen, calls, returned, ioVars, pumpVars>>
           \/ /\ k \notin stdinOpen
              /\ SendRequest_fail(c, "Failed to write to stdin", "BrokenPipe", "payload")
              /\ UNCHANGED <<agent, launched, alive, stdinOpen, wire, calls,
                             order, ioVars, pumpVars>>
           \/ /\ k \in stdinOpen
              /\ SendRequest_fail(c, "Failed to write to stdin", "Other", "payload")
              /\ UNCHANGED <<agent, launched, alive, stdinOpen, wire, calls,
                             order, ioVars, pumpVars>>

\* the result of the terminator's write not looked at
SendRequest_write_newline_unchecked(c) ==
    /\ pc[c] = "write_newline"
    /\ pc' = [pc EXCEPT ![c] = "flush"]
    /\ \/ /\ cur[c].process \in stdinOpen
          /\ Put(c, <<NL>>)
       \/ UNCHANGED <<wire, order>>
    /\ UNCHANGED <<agent, stateLock, stdinLock, launched, alive, stdinOpen,
                   cur, calls, returned, ioVars, pumpVars>>

\* stdin.write_all(b"\n").await
SendRequest_write_newline(c) ==
    /\ pc[c] = "write_newline"
    /\ LET k == cur[c].process IN
           \/ /\ k \in stdinOpen
              /\ Put(c, <<NL>>)
              /\ pc' = [pc EXCEPT ![c] = "flush"]
              /\ UNCHANGED <<agent, stateLock, stdinLock, launched, alive,
                             stdinOpen, cur, calls, returned, ioVars,
                             pumpVars>>
           \/ /\ k \notin stdinOpen
              /\ SendRequest_fail(c, "Failed to write newline", "BrokenPipe", "newline")
              /\ UNCHANGED <<agent, launched, alive, stdinOpen, wire, calls,
                             order, ioVars, pumpVars>>
           \/ /\ k \in stdinOpen
              /\ SendRequest_fail(c, "Failed to write newline", "Other", "newline")
              /\ UNCHANGED <<agent, launched, alive, stdinOpen, wire, calls,
                             order, ioVars, pumpVars>>

\* stdin.flush().await, then Ok(())
SendRequest_flush(c) ==
    /\ pc[c] = "flush"
    /\ LET k == cur[c].process IN
           \/ /\ stdinLock' = [stdinLock EXCEPT ![k] = NoOne]
              /\ Return(c, Ok, Reply(cur[c].command.name, Ok), "done", "none")
              /\ UNCHANGED <<agent, launched, alive, stdinOpen, wire, calls,
                             order, ioVars, pumpVars>>
           \/ /\ k \notin stdinOpen
              /\ SendRequest_fail(c, "Failed to flush stdin", "BrokenPipe", "flush")
              /\ UNCHANGED <<agent, launched, alive, stdinOpen, wire, calls,
                             order, ioVars, pumpVars>>
           \/ /\ k \in stdinOpen
              /\ SendRequest_fail(c, "Failed to flush stdin", "Other", "flush")
              /\ UNCHANGED <<agent, launched, alive, stdinOpen, wire, calls,
                             order, ioVars, pumpVars>>

(***************************************************************************)
(* The child process.                                                      *)
(***************************************************************************)

\* the exit of the child noticed and the handle taken back
ChildExit_clearsHandle(k) ==
    /\ k \in alive
    /\ alive' = alive \ {k}
    /\ stdinOpen' = stdinOpen \ {k}
    /\ closed' = TRUE
    /\ agent' = None
    /\ UNCHANGED <<stateLock, stdinLock, launched, wire, pc, cur, calls,
                   returned, order, pipe, written, writes, pumpVars>>

\* the child exits: the read end of its stdin and the write ends of its
\* stdout and stderr are closed
ChildExit(k) ==
    /\ k \in alive
    /\ alive' = alive \ {k}
    /\ stdinOpen' = stdinOpen \ {k}
    /\ closed' = TRUE
    /\ UNCHANGED <<agent, stateLock, stdinLock, launched, wire, pc, cur, calls,
                   returned, order, pipe, written, writes, pumpVars>>

Handlers ==
    \E c \in Calls :
        \/ \E command \in Commands : Invoke(c, command)
        \/ LockState(c)
        \/ SpawnAgent_check(c)
        \/ SpawnAgent_fail(c)
        \/ SpawnAgent_ok(c)
        \/ Command_match(c)
        \/ SendRequest_lock(c)
        \/ SendRequest_write_payload(c)
        \/ SendRequest_write_newline(c)
        \/ SendRequest_flush(c)

Next ==
    \/ Handlers
    \/ \E k \in Children : ChildExit(k)

Spec == Init /\ [][Next]_vars

(***************************************************************************)
(* The inbound protocol: what serde_json::from_str::<AgentResponse> makes  *)
(* of a line.  A member lexeme is "key":"string" or "key":integer.         *)
(***************************************************************************)
IntMember(key, digits) == "\"" \o key \o "\":" \o digits

\* the member lexemes the child's output is made of
Lexemes ==
    {[lex |-> Member("type", t), key |-> "type", kind |-> "str", val |-> t] :
        t \in {<<"r","e","a","d","y">>, <<"t","o","k","e","n">>,
               <<"t","o","o","l","_","u","s","e">>,
               <<"t","o","o","l","_","r","e","s","u","l","t">>,
               <<"d","o","n","e">>, <<"e","r","r","o","r">>,
               <<"b","o","g","u","s">>}}
    \cup {[lex |-> Member(k, v), key |-> k, kind |-> "str", val |-> v] :
            k \in {"id", "token", "error", "data", "timestamp"},
            v \in {<<"4","2">>, Str_hi}}
    \cup {[lex |-> IntMember(k, "1"), key |-> k, kind |-> "int", val |-> <<"1">>] :
            k \in {"timestamp", "id", "data"}}

IsLexeme(e) == \E r \in Lexemes : r.lex = e
LexemeOf(e) == CHOOSE r \in Lexemes : r.lex = e

\* the members of the JSON object `line`, or the failure of the parse: an
\* object is "{", members separated by ",", "}"
ParseObject(line) ==
    LET n == Len(line)
        inner == SubSeq(line, 2, n - 1)
        wellFormed ==
            /\ n >= 2
            /\ line[1] = "{"
            /\ line[n] = "}"
            /\ (inner = <<>> \/ Len(inner) % 2 = 1)
            /\ \A i \in 1..Len(inner) :
                  IF i % 2 = 1 THEN IsLexeme(inner[i]) ELSE inner[i] = ","
    IN  IF wellFormed
        THEN [ok |-> TRUE,
              members |-> [i \in 1..((Len(inner) + 1) \div 2) |->
                              LexemeOf(inner[2 * i - 1])]]
        ELSE [ok |-> FALSE, members |-> <<>>]

Tag_ready == <<"r","e","a","d","y">>
Tag_token == <<"t","o","k","e","n">>
Tag_tool_use == <<"t","o","o","l","_","u","s","e">>
Tag_tool_result == <<"t","o","o","l","_","r","e","s","u","l","t">>
Tag_done == <<"d","o","n","e">>
Tag_error == <<"e","r","r","o","r">>

\* the fields each variant of AgentResponse requires, with their types
\* ("any" is serde_json::Value), and the ones it may omit
Required(tag) ==
    CASE tag = Tag_ready -> {<<"timestamp", "int">>}
      [] tag = Tag_token ->
            {<<"id", "str">>, <<"token", "str">>, <<"timestamp", "int">>}
      [] tag = Tag_tool_use ->
            {<<"id", "str">>, <<"data", "any">>, <<"timestamp", "int">>}
      [] tag = Tag_tool_result ->
            {<<"id", "str">>, <<"data", "any">>, <<"timestamp", "int">>}
      [] tag = Tag_done -> {<<"id", "str">>, <<"timestamp", "int">>}
      [] tag = Tag_error ->
            {<<"id", "str">>, <<"error", "str">>, <<"timestamp", "int">>}
      [] OTHER -> {}

Optional(tag) == IF tag = Tag_done THEN {<<"data", "any">>} ELSE {}

Tags == {Tag_ready, Tag_token, Tag_tool_use, Tag_tool_result, Tag_done, Tag_error}

NotAResponse == [ok |-> FALSE, response |-> <<>>]

\* serde_json::from_str::<AgentResponse>(&line): the tag selects the
\* variant, every required field must be there once with its type, a field
\* the variant does not have is ignored
DecodeObject(obj) ==
    LET ms == obj.members
        at(key) == {i \in 1..Len(ms) : ms[i].key = key}
        the(key) == ms[CHOOSE i \in at(key) : TRUE]
        typed(f) == /\ Cardinality(at(f[1])) = 1
                    /\ (f[2] = "any" \/ the(f[1]).kind = f[2])
    IN  IF ~obj.ok \/ Cardinality(at("type")) # 1 THEN NotAResponse
        ELSE LET tag == the("type").val IN
             IF /\ the("type").kind = "str"
                /\ tag \in Tags
                /\ \A f \in Required(tag) : typed(f)
                /\ \A f \in Optional(tag) : at(f[1]) = {} \/ typed(f)
             THEN [ok |-> TRUE,
                   response |->
                      [f \in {"type"} \cup {g[1] : g \in Required(tag)}
                              \cup {g[1] : g \in {h \in Optional(tag) :
                                                    at(h[1]) # {}}} |->
                          the(f).val]]
             ELSE NotAResponse

Decode(line) ==
    CHOOSE r \in {DecodeObject(obj) : obj \in {ParseObject(line)}} : TRUE

(***************************************************************************)
(* The reader tasks of AgentProcess::spawn.                                *)
(***************************************************************************)

\* char::is_whitespace, for the characters of the model
IsSpace(e) == e \in {SP, NL, "\r", "\t"}

RECURSIVE TrimStart(_)
TrimStart(t) == IF t # <<>> /\ IsSpace(Head(t)) THEN TrimStart(Tail(t)) ELSE t

RECURSIVE TrimEnd(_)
TrimEnd(t) ==
    IF t # <<>> /\ IsSpace(t[Len(t)]) THEN TrimEnd(SubSeq(t, 1, Len(t) - 1)) ELSE t

\* str::trim
Trim(t) == TrimEnd(TrimStart(t))

\* String::from_utf8(line_bytes).is_ok()
IsUtf8(bytes) == \A i \in 1..Len(bytes) : bytes[i] # BAD

\* buffer.iter().position(|&b| b == b'\n')
HasNewline(buf) == \E i \in 1..Len(buf) : buf[i] = NL
NewlinePos(buf) ==
    CHOOSE i \in 1..Len(buf) : buf[i] = NL /\ \A j \in 1..(i - 1) : buf[j] # NL

\* String::from_utf8_lossy for String::from_utf8
CompleteLine_lossy(line_bytes, no) ==
    IF Trim(line_bytes) = <<>> THEN <<>>
    ELSE <<[no |-> no, text |-> Trim(line_bytes)]>>

\* the line the reader completes from line_bytes, the `no`-th the stream
\* terminated: none when the bytes are not UTF-8 or the trimmed text is
\* empty (both `continue`)
CompleteLine(line_bytes, no) ==
    IF ~IsUtf8(line_bytes) THEN <<>>
    ELSE IF Trim(line_bytes) = <<>> THEN <<>>
    ELSE <<[no |-> no, text |-> Trim(line_bytes)]>>

LogEvent(source, l) ==
    [event |-> "agent_log", by |-> source, no |-> l.no,
     payload |-> [source |-> source, message |-> l.text]]

ResponseEvent(source, l, response) ==
    [event |-> "agent_response", by |-> source, no |-> l.no,
     payload |-> response]

\* every line logged, none parsed
PublishStdout_neverParsed(l) == <<LogEvent("stdout", l)>>

\* the stdout task: emit_all("agent_response", &response) when the line
\* parses, emit_all("agent_log", {source: "stdout", ..}) when it does not
PublishStdout(l) ==
    CHOOSE evs \in
        {IF parsed.ok THEN <<ResponseEvent("stdout", l, parsed.response)>>
         ELSE <<LogEvent("stdout", l)>> : parsed \in {Decode(l.text)}} : TRUE

\* the stdout task's body copied to stderr
PublishStderr_likeStdout(l) == PublishStdout(l)

\* the stderr task: emit_all("agent_log", {source: "stderr", ..}) always
PublishStderr(l) == <<LogEvent("stderr", l)>>

\* a line that does not parse is printed and not emitted
Publish_dropsUnparsed(s, l) ==
    IF s = "stdout" /\ ~Decode(l.text).ok THEN <<>>
    ELSE IF s = "stdout" THEN PublishStdout(l) ELSE PublishStderr(l)

Publish(s, l) == IF s = "stdout" THEN PublishStdout(l) ELSE PublishStderr(l)

\* `if let` for `while let`: one line per chunk
DrainLines_once(buf, no, out) ==
    IF ~HasNewline(buf) THEN [buffer |-> buf, no |-> no, out |-> out]
    ELSE LET p == NewlinePos(buf) IN
         [buffer |-> SubSeq(buf, p + 1, Len(buf)), no |-> no + 1,
          out |-> out \o CompleteLine(SubSeq(buf, 1, p), no + 1)]

\* the lines of a chunk taken from its end
RECURSIVE DrainLines_reversed(_, _, _)
DrainLines_reversed(buf, no, out) ==
    IF ~HasNewline(buf) THEN [buffer |-> buf, no |-> no, out |-> out]
    ELSE LET p == NewlinePos(buf) IN
         DrainLines_reversed(SubSeq(buf, p + 1, Len(buf)), no + 1,
                             CompleteLine(SubSeq(buf, 1, p), no + 1) \o out)

\* while let Some(newline_pos) = buffer.iter().position(..) { drain(..=pos) .. }
RECURSIVE DrainLines(_, _, _)
DrainLines(buf, no, out) ==
    IF ~HasNewline(buf) THEN [buffer |-> buf, no |-> no, out |-> out]
    ELSE LET p == NewlinePos(buf) IN
         DrainLines(SubSeq(buf, p + 1, Len(buf)), no + 1,
                    out \o CompleteLine(SubSeq(buf, 1, p), no + 1))

\* >= for >
Overflows_atCeiling(s, buf) == s = "stdout" /\ Len(buf) >= MAX_MESSAGE_SIZE

\* if buffer.len() > MAX_MESSAGE_SIZE (the stdout task only)
Overflows(s, buf) == s = "stdout" /\ Len(buf) > MAX_MESSAGE_SIZE

\* an overflow remembered (here as a mark left in the buffer) and the rest
\* of the oversized message skipped, up to and including its terminator
ProcessChunk_skipsTail(s, buf, chunk, no) ==
    LET skipping == buf = <<"<skip>">>
        rest == IF ~skipping THEN buf \o chunk
                ELSE IF HasNewline(chunk)
                     THEN SubSeq(chunk, NewlinePos(chunk) + 1, Len(chunk))
                     ELSE <<>>
        d == DrainLines(rest, IF skipping /\ HasNewline(chunk) THEN no + 1 ELSE no,
                        <<>>)
    IN  [buffer |-> IF Overflows(s, d.buffer) \/ (skipping /\ ~HasNewline(chunk))
                    THEN <<"<skip>">> ELSE d.buffer,
         discarded |-> Overflows(s, d.buffer),
         no |-> d.no,
         out |-> d.out,
         events |-> Flatten([i \in 1..Len(d.out) |-> Publish(s, d.out[i])])]

\* the Ok(n) arm: extend the buffer by the chunk, drain every complete
\* line and publish it, then clear the buffer if it overflows
ProcessChunk(s, buf, chunk, no) ==
    CHOOSE r \in
        {[buffer |-> IF Overflows(s, d.buffer) THEN <<>> ELSE d.buffer,
          discarded |-> Overflows(s, d.buffer),
          no |-> d.no,
          out |-> d.out,
          events |-> Flatten([i \in 1..Len(d.out) |-> Publish(s, d.out[i])])] :
            d \in {DrainLines(buf \o chunk, no, <<>>)}} : TRUE

ChunkSize(s) == IF s = "stdout" THEN STDOUT_CHUNK ELSE STDERR_CHUNK

\* stdout.read(&mut chunk).await returned Ok(n), n > 0
PumpRead(s) ==
    /\ pumpPc[s] = "running"
    /\ pipe[s] # <<>>
    /\ \E n \in 1..Min(ChunkSize(s), Len(pipe[s])) :
          \E r \in {ProcessChunk(s, buffer[s], SubSeq(pipe[s], 1, n), nlines[s])} :
          /\ pipe' = [pipe EXCEPT ![s] = SubSeq(@, n + 1, Len(@))]
          /\ nread' = [nread EXCEPT ![s] = @ + n]
          /\ buffer' = [buffer EXCEPT ![s] = r.buffer]
          /\ nlines' = [nlines EXCEPT ![s] = r.no]
          /\ lines' = [lines EXCEPT ![s] = @ \o r.out]
          /\ sink' = sink \o r.events
          /\ discards' = [discards EXCEPT ![s] = IF r.discarded THEN @ + 1 ELSE @]
    /\ UNCHANGED <<supVars, written, closed, writes, pumpPc, readErrs>>

\* what is left in the buffer completed and published at end of stream
PumpEof_flushes(s) ==
    /\ pumpPc[s] = "running"
    /\ pipe[s] = <<>>
    /\ closed
    /\ pumpPc' = [pumpPc EXCEPT ![s] = "exited"]
    /\ lines' = [lines EXCEPT ![s] = @ \o CompleteLine(buffer[s], nlines[s] + 1)]
    /\ sink' = sink \o Flatten([i \in 1..Len(CompleteLine(buffer[s], nlines[s] + 1)) |->
                                  Publish(s, CompleteLine(buffer[s], nlines[s] + 1)[i])])
    /\ UNCHANGED <<supVars, ioVars, buffer, nread, nlines, discards, readErrs>>

\* read returned Ok(0): the stream ended, the task leaves its loop
PumpEof(s) ==
    /\ pumpPc[s] = "running"
    /\ pipe[s] = <<>>
    /\ closed
    /\ pumpPc' = [pumpPc EXCEPT ![s] = "exited"]
    /\ UNCHANGED <<supVars, ioVars, buffer, sink, lines, nread, nlines,
                   discards, readErrs>>

\* `break` for `continue` in the Err arm
PumpReadErr_breaks(s) ==
    /\ pumpPc[s] = "running"
    /\ readErrs < MaxReadErrs
    /\ readErrs' = readErrs + 1
    /\ pumpPc' = [pumpPc EXCEPT ![s] = "exited"]
    /\ UNCHANGED <<supVars, ioVars, buffer, sink, lines, nread, nlines,
                   discards>>

\* read returned Err(e): logged, and the loop reads again
PumpReadErr(s) ==
    /\ pumpPc[s] = "running"
    /\ readErrs < MaxReadErrs
    /\ readErrs' = readErrs + 1
    /\ UNCHANGED <<supVars, ioVars, buffer, pumpPc, sink, lines, nread,
                   nlines, discards>>

(***************************************************************************)
(* What the child writes to its output streams.                            *)
(***************************************************************************)
M_ready == Member("type", Tag_ready)
M_token == Member("type", Tag_token)
M_done == Member("type", Tag_done)
M_id == Member("id", <<"4","2">>)
M_tok == Member("token", Str_hi)
M_ts == IntMember("timestamp", "1")

ReadyLine == <<"{", M_ready, ",", M_ts, "}", NL>>
TokenLine == <<"{", M_token, ",", M_id, ",", M_tok, ",", M_ts, "}", NL>>
DoneLine == <<"{", M_done, ",", M_id, ",", M_ts, "}", NL>>
\* a JSON object that is no AgentResponse: a token without its id
ShapelessLine == <<"{", M_token, ",", M_tok, ",", M_ts, "}", NL>>
\* MAX_MESSAGE_SIZE elements without a terminator
Filler == [i \in 1..MAX_MESSAGE_SIZE |-> "x"]

\* a line of plain text, one padded with whitespace, one that is not UTF-8
TextLine == <<"x", NL>>
PaddedLine == <<SP, "x", SP, NL>>
BadLine == <<BAD, NL>>

Segments(s) ==
    IF s = "stdout"
    THEN {<<"x">>, <<NL>>, TextLine, PaddedLine, BadLine, TokenLine, DoneLine,
          ShapelessLine, Filler}
    ELSE {<<"x">>, TextLine, BadLine, ReadyLine, Filler}

\* the child writes to one of its output streams
ChildWrite(k, s, seg) ==
    /\ k \in alive
    /\ pumpPc[s] # "unstarted"
    /\ writes < MaxWrites
    /\ writes' = writes + 1
    /\ pipe' = [pipe EXCEPT ![s] = @ \o seg]
    /\ written' = [written EXCEPT ![s] = @ \o seg]
    /\ UNCHANGED <<supVars, closed, pumpVars>>

(***************************************************************************)
(* The reader tasks on their own: the bridge right after spawn_agent       *)
(* returned Ok, and from there only the child and the two tasks.           *)
(***************************************************************************)
Spawned ==
    /\ agent = Some(1)
    /\ stateLock = NoOne
    /\ stdinLock = [k \in Children |-> NoOne]
    /\ launched = 1
    /\ alive = {1}
    /\ stdinOpen = {1}
    /\ wire = [k \in Children |-> <<>>]
    /\ pc = [c \in Calls |-> IF c = 1 THEN "returned" ELSE "idle"]
    /\ cur = [c \in Calls |-> IF c = 1 THEN [NoCall EXCEPT !.call = 1] ELSE NoCall]
    /\ calls = 1
    /\ returned = <<[call |-> 1, name |-> "spawn_agent", result |-> Ok,
                     reply |-> "Ok", step |-> "spawn", io |-> "none",
                     running |-> FALSE, seen |-> None, process |-> 0,
                     closedAtStart |-> FALSE, json |-> <<>>, n |-> 0]>>
    /\ order = <<>>

InitPump == Spawned /\ PumpInit("running")

Pumps ==
    \E s \in Streams :
        \/ PumpRead(s)
        \/ PumpEof(s)
        \/ PumpReadErr(s)
        \/ \E seg \in Segments(s) : ChildWrite(1, s, seg)

NextPump ==
    \/ Pumps
    \/ ChildExit(1)

SpecPump == InitPump /\ [][NextPump]_vars

\* each reader is a spawned tokio task of its own: the runtime keeps polling
\* it, and its read completes once the pipe has data or is at end of stream
PumpFairness == \A s \in Streams : WF_vars(PumpRead(s)) /\ WF_vars(PumpEof(s))

SpecPumpFair == SpecPump /\ PumpFairness

(***************************************************************************)
(* Properties of the request channel and the supervisor.                   *)
(***************************************************************************)

\* the send_request calls that took the lock of child k's stdin, in order
OrderOf(k) == SelectSeq(order, LAMBDA e : e.process = k)

\* what those calls put on the wire if each wrote its part in one piece
InLockOrder(k) ==
    Flatten([i \in 1..Len(OrderOf(k)) |->
                SubSeq(OrderOf(k)[i].line, 1, OrderOf(k)[i].n)])

IsSend(e) == e.name # "spawn_agent"

\* the returned sends that succeeded
OkSends == SelectSeq(returned, LAMBDA e : IsSend(e) /\ e.result.ok)

\* C1: the elements on a child's stdin are, for the send calls in the order
\* they took the lock, each call's own elements in one piece; a send that
\* returned Ok put its whole line there, payload then terminator; so when
\* the two sends that took the lock both succeeded, the wire is one's full
\* line followed by the other's, never a mixture.
C1_NoCrossTalk ==
    /\ \A k \in Children : wire[k] = InLockOrder(k)
    /\ \A i \in 1..Len(order) :
          \A j \in 1..Len(returned) :
             (returned[j].call = order[i].call /\ returned[j].result.ok)
                => /\ order[i].n = Len(order[i].line)
                   /\ order[i].line = returned[j].json \o <<NL>>
    /\ \A k \in Children :
          (Len(OrderOf(k)) = 2 /\ Len(OkSends) = 2)
             => LET a == OkSends[1].json \o <<NL>>
                    b == OkSends[2].json \o <<NL>>
                IN  wire[k] \in {a \o b, b \o a}

\* two sends were in flight together (the one invoked later returned
\* first) and both succeeded
C1_Witness ==
    /\ Len(OkSends) = 2
    /\ OkSends[1].call > OkSends[2].call
    /\ OkSends[1].json # OkSends[2].json
    /\ wire[1] = OkSends[1].json \o <<NL>> \o OkSends[2].json \o <<NL>>

\* C2: at most one child process runs; a spawn_agent invoked while a child
\* runs is rejected with "Agent already running"; no second process is
\* ever launched and the handle, once stored, stays the first child's.
C2_SingleChild ==
    /\ Cardinality(alive) <= 1
    /\ launched <= 1
    /\ agent \in {None, Some(1)}
    /\ \A j \in 1..Len(returned) :
          (returned[j].name = "spawn_agent" /\ returned[j].running)
             => /\ ~returned[j].result.ok
                /\ returned[j].reply = AlreadyRunning
                /\ returned[j].seen = Some(1)

\* a spawn_agent invoked while the child runs has been rejected, and the
\* child still runs under the same handle
C2_Witness ==
    /\ alive = {1}
    /\ agent = Some(1)
    /\ \E j \in 1..Len(returned) :
          /\ returned[j].name = "spawn_agent"
          /\ returned[j].running
          /\ returned[j].reply = AlreadyRunning

\* the context send_request gives the failure of each step
ContextOf(step) ==
    CASE step = "payload" -> "Failed to write to stdin"
      [] step = "newline" -> "Failed to write newline"
      [] step = "flush" -> "Failed to flush stdin"
      [] OTHER -> ""

\* the returned commands that got as far as writing to stdin
Wrote(e) == IsSend(e) /\ e.step \in {"payload", "newline", "flush", "done"}

\* C10: a send that starts writing after the child's stdin was closed
\* returns ChannelClosed, at the payload write and with nothing written;
\* a step that hits the broken pipe returns ChannelClosed whichever step it
\* is; any other I/O failure returns the step's WriteFailure carrying its
\* cause, never ChannelClosed; ChannelClosed is returned only for a closed
\* stdin; and the handler returns every time (the next send gets the same).
C10_SeveredPipe ==
    \A j \in 1..Len(returned) :
       LET e == returned[j] IN
       Wrote(e) =>
          /\ e.closedAtStart =>
                (e.result = ChannelClosed /\ e.step = "payload" /\ e.n = 0)
          /\ e.io = "BrokenPipe" => e.result = ChannelClosed
          /\ e.io = "Other" =>
                /\ e.result # ChannelClosed
                /\ e.result = WriteFailure(ContextOf(e.step), "Other")
                /\ e.result.cause = e.io
          /\ e.result = ChannelClosed =>
                (e.io = "BrokenPipe" /\ e.process \notin stdinOpen)
          /\ e.result.ok <=> e.io = "none"
          /\ pc[e.call] = "returned"

\* the child is gone, and two sends in a row have each returned
\* ChannelClosed
C10_Witness ==
    \E j \in 1..Len(returned) :
       /\ j + 1 <= Len(returned)
       /\ Wrote(returned[j]) /\ Wrote(returned[j + 1])
       /\ returned[j].closedAtStart
       /\ returned[j].result = ChannelClosed
       /\ returned[j + 1].result = ChannelClosed
       /\ returned[j].reply = "Failed to send message: Agent process stdin closed"

(***************************************************************************)
(* Properties of the reader tasks.                                         *)
(***************************************************************************)

\* what the reader of stream s has read so far
Consumed(s) == SubSeq(written[s], 1, nread[s])

\* the events the reader of stream s has published, in the sink's order
EventsBy(s) == SelectSeq(sink, LAMBDA e : e.by = s)

\* the positions of the terminators of w
Terminators(w) == SelectSeq([i \in 1..Len(w) |-> i], LAMBDA i : w[i] = NL)

\* the k-th line the child wrote, without its terminator
RawLine(w, k) ==
    LET ps == Terminators(w) IN
    SubSeq(w, IF k = 1 THEN 1 ELSE ps[k - 1] + 1, ps[k] - 1)

\* w is complete lines only
CompleteLines(w) == w # <<>> /\ w[Len(w)] = NL

\* no line of w has more than MAX_MESSAGE_SIZE elements before its terminator
LinesFit(w) ==
    \A k \in 1..Len(Terminators(w)) : Len(RawLine(w, k)) <= MAX_MESSAGE_SIZE

\* the whole of w fed to the frame assembler of stream s as a single chunk
Whole(s, w) == ProcessChunk(s, <<>>, w, 0)

\* C3 as stated: whenever what a reader has read is complete lines, the
\* lines it emitted, in whatever chunks it read them, are the lines a
\* single chunk gives.
C3_AnyLines ==
    \A s \in Streams :
       CompleteLines(Consumed(s)) => lines[s] = Whole(s, Consumed(s)).out

\* C3, amended: the same, for lines of at most MAX_MESSAGE_SIZE elements
\* before the terminator on stdout (stderr has no ceiling): the emitted
\* lines and the published events are those of the single chunk.
C3_FramingDeterminism ==
    \A s \in Streams :
       (CompleteLines(Consumed(s)) /\ (s = "stdout" => LinesFit(Consumed(s))))
          => /\ lines[s] = Whole(s, Consumed(s)).out
             /\ EventsBy(s) = Whole(s, Consumed(s)).events
             /\ buffer[s] = <<>>

\* stdout has read two complete lines and emitted both
C3_Witness ==
    /\ CompleteLines(Consumed("stdout"))
    /\ LinesFit(Consumed("stdout"))
    /\ Len(Terminators(Consumed("stdout"))) = 2
    /\ Len(lines["stdout"]) = 2
    /\ pipe["stdout"] = <<>>

\* C4: neither reader's buffer ever holds more than MAX_MESSAGE_SIZE
\* elements.
C4_BoundedBuffers ==
    \A s \in Streams : Len(buffer[s]) <= MAX_MESSAGE_SIZE

\* the chunk a step of the reader of s takes (empty when it takes none)
ChunkRead(s) == SubSeq(written[s], nread[s] + 1, nread'[s])

\* C5: a step of the stdout reader that takes a chunk without a terminator
\* keeps the buffer, extended by the chunk, when that is at most
\* MAX_MESSAGE_SIZE elements, and clears it when it is more; either way it
\* emits no line and publishes no event, and the reader keeps running.
C5_OverflowDiscard ==
    [][(nread'["stdout"] > nread["stdout"] /\ ~HasNewline(ChunkRead("stdout")))
         => /\ IF Len(buffer["stdout"]) + Len(ChunkRead("stdout")) <= MAX_MESSAGE_SIZE
               THEN /\ buffer'["stdout"] = buffer["stdout"] \o ChunkRead("stdout")
                    /\ discards' = discards
               ELSE /\ buffer'["stdout"] = <<>>
                    /\ discards'["stdout"] = discards["stdout"] + 1
            /\ sink' = sink
            /\ lines' = lines
            /\ pumpPc'["stdout"] = "running"]_vars

\* one element more than the ceiling has been read without a terminator:
\* the buffer was cleared, nothing was emitted, the reader runs
C5_Witness ==
    /\ nread["stdout"] = MAX_MESSAGE_SIZE + 1
    /\ ~HasNewline(Consumed("stdout"))
    /\ discards["stdout"] = 1
    /\ buffer["stdout"] = <<>>
    /\ lines["stdout"] = <<>>
    /\ sink = <<>>
    /\ pumpPc["stdout"] = "running"

\* C6: on each stream the published events are, one for one and in order,
\* the completed lines: the i-th event is the event of the i-th line.
C6_OneEventPerLine ==
    \A s \in Streams :
       /\ Len(EventsBy(s)) = Len(lines[s])
       /\ \A i \in 1..Len(lines[s]) :
             LET e == EventsBy(s)[i]
                 l == lines[s][i]
             IN  /\ e.no = l.no
                 /\ e.event = "agent_log" => e.payload.message = l.text
                 /\ e.event = "agent_response" =>
                       e.payload = Decode(l.text).response

\* stdout has published a response and stderr a log line
C6_Witness ==
    /\ \E i \in 1..Len(sink) :
          sink[i].by = "stdout" /\ sink[i].event = "agent_response"
    /\ \E i \in 1..Len(sink) :
          sink[i].by = "stderr" /\ sink[i].event = "agent_log"
    /\ Len(sink) = 2

\* some suffix of the raw line, trimmed, is the text
IsTailOf(text, raw) ==
    \E j \in 1..(Len(raw) + 1) : Trim(SubSeq(raw, j, Len(raw))) = text

\* C7: the events of one stream are in the order the child wrote their
\* lines: each event comes from a later line of the stream than the event
\* before it, and carries that line's text.
C7_StreamOrder ==
    \A s \in Streams :
       \A i \in 1..Len(EventsBy(s)) :
          LET e == EventsBy(s)[i] IN
          /\ i > 1 => EventsBy(s)[i - 1].no < e.no
          /\ e.no \in 1..Len(Terminators(written[s]))
          /\ i <= Len(lines[s])
          /\ IsTailOf(lines[s][i].text, RawLine(written[s], e.no))
          /\ e.event = "agent_log" => e.payload.message = lines[s][i].text
          /\ e.event = "agent_response" =>
                e.payload = Decode(lines[s][i].text).response

\* the child wrote a Token and then the Done of the same request; the sink
\* has them in that order
C7_Witness ==
    /\ written["stdout"] = TokenLine \o DoneLine
    /\ Len(sink) = 2
    /\ sink[1].event = "agent_response" /\ sink[1].payload.type = Tag_token
    /\ sink[2].event = "agent_response" /\ sink[2].payload.type = Tag_done
    /\ sink[1].payload.id = sink[2].payload.id

\* C8: every completed line of stdout that decodes as a Response is
\* published as that Response, every other one as a LogEvent with source
\* "stdout" and the line as message; the reader stops only at end of stream.
C8_StdoutClassification ==
    /\ Len(EventsBy("stdout")) = Len(lines["stdout"])
    /\ \A i \in 1..Len(lines["stdout"]) :
          LET e == EventsBy("stdout")[i]
              l == lines["stdout"][i]
          IN  /\ IF Decode(l.text).ok
                 THEN /\ e.event = "agent_response"
                      /\ e.payload = Decode(l.text).response
                 ELSE /\ e.event = "agent_log"
                      /\ e.payload = [source |-> "stdout", message |-> l.text]
              /\ l.text = <<"x">> =>
                    e.payload = [source |-> "stdout", message |-> <<"x">>]
              /\ l.text = Trim(ShapelessLine) => e.event = "agent_log"
              /\ l.text = Trim(TokenLine) =>
                    /\ e.event = "agent_response"
                    /\ e.payload = [type |-> Tag_token, id |-> <<"4","2">>,
                                    token |-> Str_hi, timestamp |-> <<"1">>]
    /\ pumpPc["stdout"] = "exited" => (closed /\ pipe["stdout"] = <<>>)

\* a line that is no Response was logged, and the reader went on to
\* publish the Response that followed
C8_Witness ==
    /\ Len(sink) = 2
    /\ sink[1].by = "stdout" /\ sink[1].event = "agent_log"
    /\ sink[1].payload.message = Trim(ShapelessLine)
    /\ sink[2].by = "stdout" /\ sink[2].event = "agent_response"
    /\ pumpPc["stdout"] = "running"

\* C9: every completed line of stderr is published as a LogEvent with
\* source "stderr" and the line as message, also when it would decode as a
\* Response; the stderr reader publishes no Response.
C9_StderrAlwaysLog ==
    /\ Len(EventsBy("stderr")) = Len(lines["stderr"])
    /\ \A i \in 1..Len(lines["stderr"]) :
          LET e == EventsBy("stderr")[i]
              l == lines["stderr"][i]
          IN  /\ e.event = "agent_log"
              /\ e.payload = [source |-> "stderr", message |-> l.text]
    /\ \A i \in 1..Len(sink) :
          sink[i].event = "agent_response" => sink[i].by = "stdout"

\* a line of stderr that decodes as a Response was published as a log line
C9_Witness ==
    \E i \in 1..Len(sink) :
       /\ sink[i].by = "stderr"
       /\ sink[i].event = "agent_log"
       /\ Decode(sink[i].payload.message).ok

(***************************************************************************)
(* Properties of the supervisor's life cycle.                              *)
(***************************************************************************)

\* C11: a spawn_agent is rejected with "Agent already running" only while a
\* child runs: once the child has exited, a new spawn_agent is not rejected
\* and starts a new child.
C11_RespawnAfterExit ==
    [][\A c \in Calls :
          (pc[c] = "spawn_check" /\ pc'[c] = "returned") => alive # {}]_vars

\* C12: a reader leaves its loop only on a read of zero bytes, that is with
\* its stream closed and drained; a read error changes nothing of the
\* reader, which stays in its loop; and once the child has closed its
\* streams each reader eventually leaves its loop.
C12_OnlyEofStops ==
    /\ [][\A s \in Streams :
             (pumpPc[s] = "running" /\ pumpPc'[s] = "exited")
                => (closed /\ pipe[s] = <<>> /\ readErrs' = readErrs)]_vars
    /\ [][readErrs' # readErrs
             => (pumpPc' = pumpPc /\ buffer' = buffer /\ sink' = sink)]_vars
    /\ \A s \in Streams : closed ~> (pumpPc[s] = "exited")

\* a read failed, the readers went on to publish what the child wrote, and
\* both left their loops at end of stream
C12_Witness ==
    /\ readErrs = 1
    /\ sink # <<>>
    /\ closed
    /\ \A s \in Streams : pumpPc[s] = "exited"

\* the spawn_agent calls that have returned, in order
Spawns == SelectSeq(returned, LAMBDA e : e.name = "spawn_agent")

\* C13: a spawn_agent that fails at the launch leaves the supervisor as it
\* was: no handle, no process more, no reader started, the lock released;
\* and a spawn_agent is rejected as already running only after one that
\* succeeded, never after failures alone.
C13_FailedSpawnKeepsNothing ==
    /\ [][\A c \in Calls :
             (pc[c] = "spawn" /\ pc'[c] = "returned"
                /\ ~returned'[Len(returned')].result.ok)
                => /\ agent = None /\ agent' = None
                   /\ launched' = launched
                   /\ alive' = alive
                   /\ stdinOpen' = stdinOpen
                   /\ pumpPc' = pumpPc
                   /\ stateLock' = NoOne
                   /\ returned'[Len(returned')].reply =
                         "Failed to spawn agent: Failed to spawn agent process"]_vars
    /\ [](\A j \in 1..Len(Spawns) :
             Spawns[j].reply = AlreadyRunning
                => \E i \in 1..(j - 1) : Spawns[i].result.ok)

\* a spawn_agent failed at the launch and the next one succeeded
C13_Witness ==
    /\ Len(Spawns) = 2
    /\ Spawns[1].step = "spawn" /\ ~Spawns[1].result.ok
    /\ Spawns[2].result.ok
    /\ agent = Some(1)
    /\ launched = 1

(***************************************************************************)
(* The counterpart of Encode: serde_json::from_str::<AgentRequest>, which  *)
(* the derive on AgentRequest provides.  A member lexeme is read character *)
(* by character; the characters of a lexeme are found among the spellings  *)
(* a JSON string member can have (each quote or backslash of the value     *)
(* bare or behind a backslash).                                            *)
(***************************************************************************)
RECURSIVE Cat(_)
Cat(cs) == IF cs = <<>> THEN "" ELSE Head(cs) \o Cat(Tail(cs))

FieldNames ==
    {<<"i","d">>, <<"k","i","n","d">>, <<"m","e","s","s","a","g","e">>,
     <<"i","m","a","g","e","s">>,
     <<"c","o","n","v","e","r","s","a","t","i","o","n","_","i","d">>}

\* strings with the characters serde_json escapes
Str_quote == <<"a", "\"", "b">>
Str_slash == <<"\\">>
Str_both == <<"\\", "\"">>

\* the arguments the shell passes, and what the handlers put beside them
ArgStrings == {Str_hi, Str_images, Str_c1, Str_quote, Str_slash, Str_both, <<"x">>, <<>>}
Kinds ==
    {Kind_user_message, Kind_clear_history, Kind_interrupt,
     Kind_list_conversations, Kind_load_conversation, Kind_new_conversation,
     Kind_delete_conversation}
FieldValues == ArgStrings \cup Kinds \cup {Uuid(c) : c \in Calls}

RECURSIVE Spellings(_)
Spellings(v) ==
    IF v = <<>> THEN {<<>>}
    ELSE LET heads == IF Head(v) \in {"\"", "\\"}
                      THEN {<<Head(v)>>, <<"\\", Head(v)>>}
                      ELSE {<<Head(v)>>}
         IN  {h \o t : h \in heads, t \in Spellings(Tail(v))}

MemberSpellings ==
    {<<"\"">> \o k \o <<"\"", ":", "\"">> \o sp \o <<"\"">> :
        k \in FieldNames, sp \in UNION {Spellings(v) : v \in FieldValues}}

\* str::chars of a member lexeme
CharsOf(text) == CHOOSE cs \in MemberSpellings : Cat(cs) = text

NoString == [ok |-> FALSE, value |-> <<>>, next |-> 0]

\* serde_json's string parser from position i, just after the opening
\* quote: up to the closing quote, a backslash taking the next character
RECURSIVE ParseString(_, _, _)
ParseString(cs, i, acc) ==
    IF i > Len(cs) THEN NoString
    ELSE IF cs[i] = "\"" THEN [ok |-> TRUE, value |-> acc, next |-> i + 1]
    ELSE IF cs[i] = "\\"
         THEN IF i + 1 <= Len(cs) /\ cs[i + 1] \in {"\"", "\\"}
              THEN ParseString(cs, i + 2, Append(acc, cs[i + 1]))
              ELSE NoString
    ELSE ParseString(cs, i + 1, Append(acc, cs[i]))

NoMember == [ok |-> FALSE, key |-> <<>>, value |-> <<>>]

\* "key":"value"
ParseMember(text) ==
    LET cs == CharsOf(text)
        k == ParseString(cs, 2, <<>>)
        v == ParseString(cs, k.next + 2, <<>>)
    IN  IF cs[1] # "\"" \/ ~k.ok THEN NoMember
        ELSE IF k.next + 1 > Len(cs) \/ cs[k.next] # ":" \/ cs[k.next + 1] # "\""
             THEN NoMember
        ELSE IF ~v.ok \/ v.next # Len(cs) + 1 THEN NoMember
        ELSE [ok |-> TRUE, key |-> k.value, value |-> v.value]

\* the members of the object on the line: { member , member .. }
MembersOf(line) == [i \in 1..((Len(line) - 1) \div 2) |-> ParseMember(line[2 * i])]

IsObject(line) ==
    /\ Len(line) >= 3 /\ Len(line) % 2 = 1
    /\ line[1] = "{" /\ line[Len(line)] = "}"
    /\ \A i \in 1..Len(line) :
          (i % 2 = 1 /\ i \notin {1, Len(line)}) => line[i] = ","

HasKey(ms, key) == \E i \in 1..Len(ms) : ms[i].ok /\ Cat(ms[i].key) = key

\* Option<String>: Some(value) when the member is there, None when not
FieldOf(ms, key) ==
    IF HasKey(ms, key)
    THEN Some(ms[CHOOSE i \in 1..Len(ms) : ms[i].ok /\ Cat(ms[i].key) = key].value)
    ELSE None

NotARequest == [ok |-> FALSE, request |-> <<>>]

\* serde_json::from_str::<AgentRequest>(line)
DecodeRequest(line) ==
    IF ~IsObject(line) THEN NotARequest
    ELSE LET ms == MembersOf(line) IN
         IF \E i \in 1..Len(ms) : ~ms[i].ok THEN NotARequest
         ELSE IF \E i, j \in 1..Len(ms) : i # j /\ ms[i].key = ms[j].key
              THEN NotARequest
         ELSE IF ~HasKey(ms, "id") \/ ~HasKey(ms, "kind") THEN NotARequest
         ELSE [ok |-> TRUE,
               request |-> AgentRequest(FieldOf(ms, "id")[1], FieldOf(ms, "kind")[1],
                                        FieldOf(ms, "message"), FieldOf(ms, "images"),
                                        FieldOf(ms, "conversation_id"))]

(***************************************************************************)
(* The encoder on its own: a command with any of the shell's arguments has *)
(* been invoked on a running bridge and holds the state lock; it builds    *)
(* its request, serializes it and takes the lock of stdin.                 *)
(***************************************************************************)
CodecCommands ==
    {[name |-> "send_message", id |-> i, message |-> m, images |-> g,
      conversation_id |-> None] :
        i \in {<<"x">>, Str_quote, <<>>},
        m \in {Str_hi, Str_quote, Str_slash, Str_both},
        g \in {None, Some(Str_images), Some(<<>>)}}
    \cup {[name |-> n, id |-> None, message |-> None, images |-> None,
           conversation_id |-> v] :
            n \in {"load_conversation", "delete_conversation"},
            v \in {Str_c1, Str_quote, Str_both}}
    \cup {[name |-> n, id |-> None, message |-> None, images |-> None,
           conversation_id |-> None] :
            n \in {"clear_history", "send_interrupt", "list_conversations",
                   "new_conversation"}}

InitCodec ==
    /\ PumpInit("running")
    /\ agent = Some(1)
    /\ stateLock = 2
    /\ stdinLock = [k \in Children |-> NoOne]
    /\ launched = 1
    /\ alive = {1}
    /\ stdinOpen = {1}
    /\ wire = [k \in Children |-> <<>>]
    /\ pc = [c \in Calls |-> IF c = 1 THEN "returned"
                             ELSE IF c = 2 THEN "match" ELSE "idle"]
    /\ \E command \in CodecCommands :
          cur = [c \in Calls |->
                    IF c = 1 THEN [NoCall EXCEPT !.call = 1]
                    ELSE IF c = 2 THEN [NoCall EXCEPT !.call = 2,
                                                      !.command = command,
                                                      !.running = TRUE]
                    ELSE NoCall]
    /\ calls = 2
    /\ returned = <<[call |-> 1, name |-> "spawn_agent", result |-> Ok,
                     reply |-> "Ok", step |-> "spawn", io |-> "none",
                     running |-> FALSE, seen |-> None, process |-> 0,
                     closedAtStart |-> FALSE, json |-> <<>>, n |-> 0]>>
    /\ order = <<>>

NextCodec ==
    \E c \in Calls :
        \/ Command_match(c)
        \/ SendRequest_lock(c)

SpecCodec == InitCodec /\ [][NextCodec]_vars

OptionalFields == {"message", "images", "conversation_id"}

\* the value of the field of a request
Field(request, key) ==
    CASE key = "message" -> request.message
      [] key = "images" -> request.images
      [] key = "conversation_id" -> request.conversation_id

\* C14: the line a handler serialized decodes to the request the handler
\* built, field by field (id, kind, message, images, conversation_id), and
\* an optional field that is None in the request has no member on the line.
C14_EncodeRoundTrip ==
    \A c \in Calls :
       cur[c].json # <<>> =>
          LET request == RequestOf(cur[c].command, cur[c].call)
              decoded == DecodeRequest(cur[c].json)
          IN  /\ cur[c].json = Encode(request)
              /\ decoded.ok
              /\ decoded.request.id = request.id
              /\ decoded.request.kind = request.kind
              /\ decoded.request.message = request.message
              /\ decoded.request.images = request.images
              /\ decoded.request.conversation_id = request.conversation_id
              /\ \A key \in OptionalFields :
                    Field(request, key) = None
                       => ~HasKey(MembersOf(cur[c].json), key)

\* a send_message whose id and message hold a quote and a backslash and
\* whose images are unset has been serialized: three members
C14_Witness ==
    /\ cur[2].command.name = "send_message"
    /\ cur[2].command.id = Str_quote
    /\ cur[2].command.message = Str_both
    /\ cur[2].command.images = None
    /\ Len(cur[2].json) = 7
    /\ pc[2] = "write_payload"

(***************************************************************************)
(* Properties of send_request's three steps.                               *)
(***************************************************************************)

\* what the call of the returned command e has put on the wire
OnWire(e) == order[CHOOSE i \in 1..Len(order) : order[i].call = e.call].n

\* C15: a send returns Ok only from the end of send_request, with its
\* payload and then its terminator written and the flush done; a send that
\* fails returns from the step that failed, with the later steps not done
\* (nothing of the payload missing means the payload write succeeded, the
\* terminator on the wire means its write succeeded); each call takes the
\* lock of stdin once (no retry); what a call wrote before it failed stays
\* on the wire, and a call that returned writes nothing more.
C15_AllStepsOrFailure ==
    /\ [](/\ \A k \in Children : wire[k] = InLockOrder(k)
          /\ \A i, j \in 1..Len(order) : order[i].call = order[j].call => i = j
          /\ \A j \in 1..Len(returned) :
                LET e == returned[j] IN
                Wrote(e) =>
                   /\ e.result.ok <=> e.step = "done"
                   /\ e.step = "done" => OnWire(e) = Len(e.json) + 1
                   /\ e.step = "flush" => OnWire(e) = Len(e.json) + 1
                   /\ e.step = "newline" => OnWire(e) = Len(e.json)
                   /\ e.step = "payload" => OnWire(e) < Len(e.json)
                   /\ pc[e.call] = "returned")
    /\ [][\A i \in 1..Len(order) :
             pc[order[i].call] = "returned" => order'[i] = order[i]]_vars

\* a send failed in the middle of its payload and the part it had written
\* is what the wire holds
C15_Witness ==
    \E j \in 1..Len(returned) :
       /\ Wrote(returned[j])
       /\ returned[j].step = "payload"
       /\ returned[j].io = "Other"
       /\ OnWire(returned[j]) > 0
       /\ wire[1] = SubSeq(returned[j].json, 1, OnWire(returned[j]))

(***************************************************************************)
(* Properties of the line decoding of the reader tasks.                    *)
(***************************************************************************)

\* the events of stream s that come from its k-th line
EventsOfLine(s, k) == SelectSeq(EventsBy(s), LAMBDA e : e.no = k)

\* C16: a line that is not valid UTF-8 gets no event, on either stream; and
\* every line that is valid and not blank gets its event whatever came
\* before it, invalid lines included (on stdout as long as no overflow has
\* cut into the stream); a reader leaves its loop only at end of stream.
C16_InvalidTextDropped ==
    \A s \in Streams :
       /\ \A k \in 1..nlines[s] :
             LET raw == RawLine(written[s], k) IN
             /\ ~IsUtf8(raw) => EventsOfLine(s, k) = <<>>
             /\ (IsUtf8(raw) /\ Trim(raw) # <<>> /\ discards[s] = 0)
                   => /\ Len(EventsOfLine(s, k)) = 1
                      /\ \E i \in 1..Len(lines[s]) :
                            lines[s][i] = [no |-> k, text |-> Trim(raw)]
       /\ pumpPc[s] = "exited" => closed

\* the child wrote an invalid line and then a valid one on stdout; the only
\* event is the second line's
C16_Witness ==
    /\ written["stdout"] = BadLine \o TextLine
    /\ nlines["stdout"] = 2
    /\ Len(sink) = 1
    /\ sink[1].no = 2
    /\ sink[1].payload = [source |-> "stdout", message |-> <<"x">>]
    /\ pumpPc["stdout"] = "running"

\* C17: the text of every completed line is the bytes before its
\* terminator with the trailing whitespace removed and nothing else: the
\* whitespace the line begins with is kept (stated for streams no overflow
\* discard has cut into).
C17_LeadingWhitespaceKept ==
    \A s \in Streams :
       discards[s] = 0 =>
          \A i \in 1..Len(lines[s]) :
             lines[s][i].text = TrimEnd(RawLine(written[s], lines[s][i].no))

(***************************************************************************)
(* The start of the bridge: spawn_agent and a send command next to the     *)
(* stdout reader, with a child that writes its Ready line.                 *)
(***************************************************************************)
StartCommands ==
    {SpawnCommand,
     [name |-> "send_interrupt", id |-> None, message |-> None,
      images |-> None, conversation_id |-> None]}

NextStart ==
    \/ \E c \in Calls :
          \/ \E command \in StartCommands : Invoke(c, command)
          \/ LockState(c)
          \/ SpawnAgent_check(c)
          \/ SpawnAgent_fail(c)
          \/ SpawnAgent_ok(c)
          \/ Command_match(c)
          \/ SendRequest_lock(c)
          \/ SendRequest_write_payload(c)
          \/ SendRequest_write_newline(c)
          \/ SendRequest_flush(c)
    \/ ChildWrite(1, "stdout", ReadyLine)
    \/ PumpRead("stdout")

SpecStart == Init /\ [][NextStart]_vars

ReadyResponse == [type |-> Tag_ready, timestamp |-> <<"1">>]

\* C18: nothing in spawn_agent or in a send command waits for the child's
\* Ready: a spawn_agent that holds the lock with no handle stored can
\* launch and return, and a send command that holds the lock can build its
\* request, take stdin and write, whatever the sink holds; the Ready the
\* child writes is published by the stdout reader as an agent_response
\* like any other, and only after spawn_agent has returned.
C18_NoReadyHandshake ==
    /\ \A c \in Calls :
          /\ (pc[c] = "spawn" /\ launched < MaxChildren) => ENABLED SpawnAgent_ok(c)
          /\ pc[c] = "match" => ENABLED Command_match(c)
          /\ (pc[c] = "stdin_lock" /\ stdinLock[cur[c].process] = NoOne)
                => ENABLED SendRequest_lock(c)
          /\ pc[c] = "write_payload" => ENABLED SendRequest_write_payload(c)
          /\ pc[c] = "write_newline" => ENABLED SendRequest_write_newline(c)
          /\ pc[c] = "flush" => ENABLED SendRequest_flush(c)
    /\ \A i \in 1..Len(sink) :
          /\ sink[i].event = "agent_response"
          /\ sink[i].by = "stdout"
          /\ sink[i].payload = ReadyResponse
    /\ written["stdout"] # <<>> => \E i \in 1..Len(Spawns) : Spawns[i].result.ok

\* the child has written its Ready, which nobody has read yet, and a send
\* has already returned Ok
C18_Witness ==
    /\ written["stdout"] = ReadyLine
    /\ nread["stdout"] = 0
    /\ sink = <<>>
    /\ Len(OkSends) = 1
    /\ wire[1] = OkSends[1].json \o <<NL>>

\* the bridge with the end of its reader tasks
NextLife ==
    \/ Next
    \/ \E s \in Streams : PumpEof(s)

SpecLife == Init /\ [][NextLife]_vars

\* C19: no step takes the handle out of AppState.agent or puts another in
\* its place once it is stored, the exit of the child, the end of either
\* reader task and a send's ChannelClosed included; and every spawn_agent that returns after one
\* that succeeded returns "Agent already running".
C19_HandleNeverCleared ==
    /\ [][agent # None => agent' = agent]_vars
    /\ [](\A j \in 1..Len(Spawns) :
             (\E i \in 1..(j - 1) : Spawns[i].result.ok)
                => /\ Spawns[j].reply = AlreadyRunning
                   /\ Spawns[j].seen = agent)

\* the child has exited, both reader tasks have ended, a send has returned
\* ChannelClosed, and the spawn_agent invoked after that, with no child
\* running, was rejected
C19_Witness ==
    /\ alive = {}
    /\ \A s \in Streams : pumpPc[s] = "exited"
    /\ agent = Some(1)
    /\ Len(returned) = 3
    /\ returned[1].name = "spawn_agent" /\ returned[1].result.ok
    /\ returned[2].result = ChannelClosed
    /\ returned[3].name = "spawn_agent"
    /\ ~returned[3].running
    /\ returned[3].reply = AlreadyRunning

(***************************************************************************)
(* Properties of the stdout reader after an overflow.                      *)
(***************************************************************************)

\* what w holds after its last terminator
Unterminated(w) ==
    IF HasNewline(w)
    THEN SubSeq(w, Terminators(w)[Len(Terminators(w))] + 1, Len(w))
    ELSE w

\* an overflow has discarded a part of the line the reader of s is in
CutInto(s) == Len(buffer[s]) < Len(Unterminated(Consumed(s)))

\* the chunk up to and including its first terminator
FirstLine(chunk) == SubSeq(chunk, 1, NewlinePos(chunk))

\* C20: when an overflow has discarded a part of the line the stdout reader
\* is in and a chunk brings that line's terminator, the reader completes a
\* line from what it has buffered since the discard and the chunk up to the
\* terminator, and publishes it like any other line: nothing is skipped up
\* to the terminator, the fragment is the next line and the next event.
C20_TailFragment ==
    [][(/\ CutInto("stdout")
        /\ nread'["stdout"] > nread["stdout"]
        /\ HasNewline(ChunkRead("stdout")))
         => LET frag == CompleteLine(buffer["stdout"] \o FirstLine(ChunkRead("stdout")),
                                     nlines["stdout"] + 1)
                had == Len(lines["stdout"])
            IN  /\ nlines'["stdout"] >= nlines["stdout"] + 1
                /\ Len(lines'["stdout"]) >= had + Len(frag)
                /\ SubSeq(lines'["stdout"], had + 1, had + Len(frag)) = frag
                /\ frag # <<>> =>
                      /\ Len(sink') > Len(sink)
                      /\ sink'[Len(sink) + 1] = PublishStdout(frag[1])[1]]_vars

\* the child wrote MAX_MESSAGE_SIZE bytes and " x " before the terminator;
\* the buffer was cleared on the way, and the line published is "x", the
\* end of what the child wrote
C20_Witness ==
    /\ written["stdout"] = Filler \o PaddedLine
    /\ discards["stdout"] = 1
    /\ lines["stdout"] = <<[no |-> 1, text |-> <<"x">>]>>
    /\ sink = <<LogEvent("stdout", [no |-> 1, text |-> <<"x">>])>>
    /\ Trim(RawLine(written["stdout"], 1)) # <<"x">>

(***************************************************************************)
(* Properties of the end of a reader task.                                 *)
(***************************************************************************)

\* C21: the step in which a reader leaves its loop completes no line and
\* publishes no event, and neither does any step after it; so what the
\* child wrote after its last terminator never gets an event: the events
\* of a reader that has ended are events of terminated lines only, and
\* what its buffer held stays undecoded.
C21_UnterminatedTailDropped ==
    /\ [][\A s \in Streams :
             pumpPc'[s] = "exited"
                => /\ SelectSeq(sink', LAMBDA e : e.by = s) = EventsBy(s)
                   /\ lines'[s] = lines[s]
                   /\ buffer'[s] = buffer[s]]_vars
    /\ [](\A s \in Streams :
             pumpPc[s] = "exited"
                => /\ nread[s] = Len(written[s])
                   /\ nlines[s] = Len(Terminators(written[s]))
                   /\ \A i \in 1..Len(EventsBy(s)) :
                         EventsBy(s)[i].no \in 1..nlines[s]
                   /\ Len(EventsBy(s)) <= nlines[s])

\* the child wrote a line and then "x" without a terminator and exited;
\* the stdout reader has ended with the "x" in its buffer and the line's
\* event as the only one
C21_Witness ==
    /\ written["stdout"] = TextLine \o <<"x">>
    /\ pumpPc["stdout"] = "exited"
    /\ buffer["stdout"] = <<"x">>
    /\ Len(sink) = 1
    /\ sink[1].no = 1

(***************************************************************************)
(* Properties of the state lock.                                           *)
(***************************************************************************)

\* the handler of call c is past its lock().await and has not returned
InHandler(c) == pc[c] \notin {"idle", "lock", "returned"}

\* the call is inside send_request, at one of its awaits on stdin
InSend(c) == pc[c] \in {"stdin_lock", "write_payload", "write_newline", "flush"}

\* C22: a handler holds the lock of AppState.agent from its lock().await to
\* its return, its whole send_request included; so while one command is in
\* its handler every other command is not yet invoked, has returned, or
\* waits for the lock and cannot take it, spawn_agent and send_interrupt
\* like the rest; the stdout reader takes no lock and can read whenever its
\* pipe has data.
C22_CommandsSerialized ==
    /\ \A c \in Calls : InHandler(c) <=> stateLock = c
    /\ \A c \in Calls : InSend(c) => stateLock = c
    /\ \A c1, c2 \in Calls :
          (InHandler(c1) /\ c1 # c2)
             => /\ ~InHandler(c2)
                /\ ~ENABLED LockState(c2)
                /\ ~ENABLED SpawnAgent_check(c2)
                /\ ~ENABLED Command_match(c2)
    /\ (pumpPc["stdout"] = "running" /\ pipe["stdout"] # <<>>)
          => ENABLED PumpRead("stdout")

\* a send is in the middle of its payload write; a spawn_agent invoked
\* after it waits for the lock; meanwhile the stdout reader has published
\* the child's Ready
C22_Witness ==
    /\ \E c \in Calls :
          /\ pc[c] = "write_payload"
          /\ cur[c].n > 0
          /\ \E c2 \in Calls :
                /\ c2 > c
                /\ pc[c2] = "lock"
                /\ cur[c2].command.name = "spawn_agent"
    /\ Len(sink) = 1
    /\ sink[1].payload = ReadyResponse

(***************************************************************************)
(* The request commands on a bridge that may have no handle: all seven     *)
(* handlers up to their match on the handle, next to spawn_agent.          *)
(***************************************************************************)
RequestCommands ==
    {[name |-> "send_message", id |-> <<"x">>, message |-> Str_hi,
      images |-> None, conversation_id |-> None]}
    \cup {[name |-> n, id |-> None, message |-> None, images |-> None,
           conversation_id |-> None] :
            n \in {"clear_history", "send_interrupt", "list_conversations",
                   "new_conversation"}}
    \cup {[name |-> n, id |-> None, message |-> None, images |-> None,
           conversation_id |-> Str_c1] :
            n \in {"load_conversation", "delete_conversation"}}

NextIdle ==
    \E c \in Calls :
        \/ \E command \in RequestCommands \cup {SpawnCommand} : Invoke(c, command)
        \/ LockState(c)
        \/ SpawnAgent_check(c)
        \/ SpawnAgent_fail(c)
        \/ SpawnAgent_ok(c)
        \/ Command_match(c)

SpecIdle == Init /\ [][NextIdle]_vars

\* C23: a request command that finds no handle returns "Agent not
\* running" from its match, having built no request and taken no stdin; its
\* step writes nothing to any stream and changes nothing of the supervisor
\* but the release of its lock; while no handle is stored nothing has ever
\* been written.
C23_NotRunning ==
    /\ [](\A j \in 1..Len(returned) :
             LET e == returned[j] IN
             (IsSend(e) /\ e.seen = None)
                => /\ e.reply = "Agent not running"
                   /\ ~e.result.ok
                   /\ e.step = "match"
                   /\ e.json = <<>>
                   /\ e.process = 0)
    /\ [](agent = None => (order = <<>> /\ \A k \in Children : wire[k] = <<>>))
    /\ [][\A c \in Calls :
             (pc[c] = "match" /\ agent = None /\ pc'[c] # "match")
                => /\ pc'[c] = "returned"
                   /\ returned'[Len(returned')].reply = "Agent not running"
                   /\ agent' = None
                   /\ stateLock' = NoOne
                   /\ <<stdinLock, launched, alive, stdinOpen, wire, order>>' =
                         <<stdinLock, launched, alive, stdinOpen, wire, order>>
                   /\ ioVars' = ioVars
                   /\ pumpVars' = pumpVars]_vars

\* after a spawn_agent that failed, a delete_conversation and a
\* list_conversations have each been answered "Agent not running"
C23_Witness ==
    /\ Len(returned) = 3
    /\ returned[1].name = "spawn_agent" /\ ~returned[1].result.ok
    /\ returned[2].name = "delete_conversation"
    /\ returned[2].reply = "Agent not running"
    /\ returned[3].name = "list_conversations"
    /\ returned[3].reply = "Agent not running"
    /\ agent = None
    /\ wire = [k \in Children |-> <<>>]

====
